---- MODULE Spec2Model ----
(***************************************************************************)
(* Video Culler: the main-process analysis handler (analysisHandlers.ts),  *)
(* the clip store (clipHandlers.ts) and the timeline export handler        *)
(* (exportHandlers.ts), with the renderer's export entry point             *)
(* (ExportBar.tsx).                                                        *)
(***************************************************************************)
EXTENDS Integers, Sequences, FiniteSets, TLC

\* ------------------------------------------------------------------ bounds
MaxVideos == 3      \* longest video list handed to ANALYZE_VIDEOS
MaxFrames == 2      \* most frames ffmpeg extracts from one video
MaxExport == 3      \* longest clip list handed to EXPORT_TIMELINE
MaxStore == 2       \* most clips in the renderer's store when exporting
MaxRerun == 1       \* longest video list of a run interleaved with store calls
MaxInFlight == 3    \* most TOGGLE_SELECTION messages in flight at once
MaxSide == 4        \* largest width and height of a frame scored on its own
MaxFrameCount == 1830   \* largest frame count converted (61 s at 30 fps)
MaxTimelineClips == 3   \* most clips of a timeline with markers
MaxMarkers == 2     \* most markers of a timeline

\* ------------------------------------------------------------- numbers
\* JavaScript numbers that arise from divisions are kept as exact fractions;
\* den = 0 stands for NaN (0 / 0).
Num(n, d) == [num |-> n, den |-> d]
NaN == Num(0, 0)
IsNaN(x) == x.den = 0
FromInt(n) == Num(n, 1)
NumAdd(a, b) ==
    IF IsNaN(a) \/ IsNaN(b) THEN NaN
    ELSE Num(a.num * b.den + b.num * a.den, a.den * b.den)
\* a / n for an integer n >= 0; 0 / 0 is NaN (a sum of non-negatives over 0
\* elements is 0, so x / 0 with x # 0 does not arise)
NumDivInt(a, n) ==
    IF IsNaN(a) \/ n = 0 THEN NaN ELSE Num(a.num, a.den * n)
NumLeq(a, b) == a.num * b.den <= b.num * a.den
\* Math.min(100, x): NaN if x is NaN
MathMin100(x) ==
    IF IsNaN(x) THEN NaN
    ELSE IF NumLeq(FromInt(100), x) THEN FromInt(100) ELSE x
\* Math.round(x) = floor(x + 0.5); NaN stays NaN
MathRound(x) ==
    IF IsNaN(x) THEN NaN
    ELSE FromInt((2 * x.num + x.den) \div (2 * x.den))

RECURSIVE SumNums(_)
SumNums(s) == IF s = << >> THEN FromInt(0) ELSE NumAdd(SumNums(Tail(s)), Head(s))

RECURSIVE SumInts(_)
SumInts(s) == IF s = << >> THEN 0 ELSE Head(s) + SumInts(Tail(s))

\* ------------------------------------------------------------- video files
\* A VideoFile as SCAN_VIDEOS builds it: id = path = full path,
\* filename = basename, then the probed metadata.  fps is in 1/1000 fps.
VideoFile(p, f, d, r) ==
    [id |-> p, path |-> p, filename |-> f, directory |-> "root",
     duration |-> d, width |-> 1920, height |-> 1080, fps |-> r,
     codec |-> "h264"]

\* Paths are sequences of characters, so that encodeURI can act on them.
VideoA == VideoFile(<<"/", "a">>, "a", 5, 30000)
VideoB == VideoFile(<<"/", "b">>, "b", 3, 29970)
VideoC == VideoFile(<<"/", "c">>, "c", 7, 120000)
ScannedVideos == {VideoA, VideoB, VideoC}

\* the lists a scan can hand to analyze: every file at most once
IsInjective(s) == \A a, b \in DOMAIN s : s[a] = s[b] => a = b
VideoLists ==
    UNION { { s \in [1..n -> ScannedVideos] : IsInjective(s) } : n \in 0..MaxVideos }

\* ------------------------------------------------------------- frames
\* A decoded grayscale frame: row-major samples, data[y * width + x + 1].
Frame(w, h, d) == [width |-> w, height |-> h, data |-> d]
FlatFrame  == Frame(4, 3, <<9,9,9,9, 9,9,9,9, 9,9,9,9>>)
SoftFrame  == Frame(4, 3, <<9,9,9,9, 9,9,7,9, 9,9,9,9>>)
SharpFrame == Frame(4, 3, <<0,0,0,0, 0,0,255,0, 0,0,0,0>>)
SampleFrames == {FlatFrame, SoftFrame, SharpFrame}
FrameLists == UNION { [1..n -> SampleFrames] : n \in 0..MaxFrames }

\* the frames handed to the scorer on its own: every size up to MaxSide in
\* each direction, a uniform background with at most two samples of another
\* level
Levels == {0, 8, 255}
ScorerFrames ==
    UNION { { Frame(w, h, [k \in 1..(w * h) |-> IF k \in {p, q} THEN d ELSE b])
              : p \in 0..(w * h), q \in 0..(w * h), b \in Levels, d \in Levels }
            : w \in 1..MaxSide, h \in 1..MaxSide }

Abs(n) == IF n < 0 THEN -n ELSE n

\* the Laplacian taken at every pixel, with 0 for the neighbours a border
\* pixel does not have
Laplacian_zeroPadded(img) ==
    LET w == img.width
        h == img.height
        px(x, y) == IF x < 0 \/ x >= w \/ y < 0 \/ y >= h THEN 0
                    ELSE img.data[y * w + x + 1]
        lap(x, y) == Abs(-4 * px(x, y) + px(x, y - 1) + px(x, y + 1)
                          + px(x - 1, y) + px(x + 1, y))
    IN  [k \in 1..(w * h) |-> lap((k - 1) % w, (k - 1) \div w)]

\* the Laplacian responses of the interior pixels, in scan order
Laplacian(img) ==
    LET w == img.width
        h == img.height
        px(x, y) == img.data[y * w + x + 1]
        lap(x, y) == Abs(-4 * px(x, y) + px(x, y - 1) + px(x, y + 1)
                          + px(x - 1, y) + px(x + 1, y))
        iw == IF w > 2 THEN w - 2 ELSE 0
        ih == IF h > 2 THEN h - 2 ELSE 0
    IN  [k \in 1..(iw * ih) |-> lap(1 + ((k - 1) % iw), 1 + ((k - 1) \div iw))]

\* calculateFocusScore without Math.min(100, ...)
calculateFocusScore_uncapped(img) ==
    LET l == Laplacian(img)
        n == Len(l)
        s1 == SumInts(l)
        s2 == SumInts([k \in 1..n |-> l[k] * l[k]])
    IN  IF n = 0 THEN NaN ELSE Num(n * s2 - s1 * s1, n * n)

\* calculateFocusScore: min(100, variance / 100 * 100) of the responses
calculateFocusScore(img) ==
    LET l == Laplacian(img)
        n == Len(l)
        s1 == SumInts(l)
        s2 == SumInts([k \in 1..n |-> l[k] * l[k]])
        \* mean = s1 / n ; variance = sum((v - mean)^2) / n
        \*      = (n * s2 - s1^2) / n^2
        variance == IF n = 0 THEN NaN ELSE Num(n * s2 - s1 * s1, n * n)
    IN  MathMin100(variance)

\* -------------------------------------------------------------- state
VARIABLES
    pc,             \* position of the ANALYZE_VIDEOS handler
    videoFiles,     \* its argument
    i,              \* loop index (0-based, as in the code)
    analyzedClips,  \* local list of the handler
    sent,           \* progress events sent to the renderer, in order
    tempDir,        \* analyzeVideo's tempDir: index into disk, 0 = none
    frames,         \* analyzeVideo's frames, as the decoded images
    focusScores,    \* analyzeVideo's focusScores
    disk,           \* temporary directories that exist on disk
    clips,          \* clipHandlers' module-level clip collection
    outcome,        \* "pending" | "returned" | "rejected"
    result,         \* value the handler resolved with
    status          \* per input index: "pending" | "ok" | "failed" (history)

analysisVars == <<pc, videoFiles, i, analyzedClips, sent, tempDir, frames,
                  focusScores, disk, clips, outcome, result, status>>

VARIABLES
    exPc,           \* position of the EXPORT_TIMELINE handler
    exClips,        \* its clips argument
    exOptions,      \* its options argument
    exCaller,       \* "none" | "ipc" | "ui": who invoked the handler
    filePath,       \* result.filePath of the save dialog, "" = none
    fileBefore,     \* what was at filePath before the export
    file,           \* what is at filePath now
    exResult,       \* value the handler resolved with
    exOutcome,      \* "pending" | "returned" | "rejected"
    writes,         \* number of writeFile calls made
    rendererClips,  \* clips of the renderer's store
    uiPc,           \* handleExport: "idle" | "exporting" | "done"
    isExporting,    \* ExportBar's isExporting state
    alertMsg        \* last alert shown by handleExport

exportVars == <<exPc, exClips, exOptions, exCaller, filePath, fileBefore, file,
                exResult, exOutcome, writes, rendererClips, uiPc, isExporting,
                alertMsg>>

\* A value that may be absent is kept as a sequence of at most one element.
VARIABLES
    reply,          \* what the clip-store handler handled last returned
    inFlight,       \* TOGGLE_SELECTION messages sent by the renderer's store,
                    \* not yet handled by the main process
    image,          \* the decoded frame handed to calculateFocusScore
    score,          \* what calculateFocusScore resolved with
    rate,           \* frame rate handed to the timecode conversions
    frameCount,     \* frame count handed to the timecode conversions
    smpte,          \* the timecode rendered for frameCount
    ticks,          \* the ticks computed for frameCount and for 2 * frameCount
    tlClips,        \* the clips of the timeline handed to an exporter
    markers,        \* the markers handed to an exporter
    attached,       \* the markers the exporter attached, per clip
    written,        \* number of frames ffmpeg wrote into the output directory
    dirFiles,       \* the names readdir lists for the output directory
    framePaths,     \* what extractFrames resolved with
    view,           \* App's view: "welcome" | "analyzing" | "clips"
    isAnalyzing,    \* the renderer store's isAnalyzing
    isLoading,      \* WelcomeScreen's isLoading
    selPc,          \* position of WelcomeScreen's handleSelectFolder
    shownAnalyzing, \* isAnalyzing as of App's last render
    clipsChanged,   \* the store's clips were set since App's last render
    handled,        \* number of progress events the renderer has handled
    lastClick       \* what the user clicked last in the clips view

storeVars == <<reply, inFlight>>
scorerVars == <<image, score>>
converterVars == <<rate, frameCount, smpte, ticks>>
markerVars == <<tlClips, markers, attached>>
samplerVars == <<written, dirFiles, framePaths>>
uiVars == <<view, isAnalyzing, isLoading, selPc, shownAnalyzing, clipsChanged,
            handled, lastClick>>
auxVars == <<storeVars, scorerVars, converterVars, markerVars, samplerVars,
             uiVars>>

StoreIdle == reply = << >> /\ inFlight = << >>
ScorerIdle == image = << >> /\ score = << >>
ConverterIdle == rate = << >> /\ frameCount = 0 /\ smpte = << >> /\ ticks = << >>
MarkerIdle == tlClips = << >> /\ markers = << >> /\ attached = << >>
SamplerIdle == written = 0 /\ dirFiles = << >> /\ framePaths = << >>
\* the renderer's state other than its clips, when the window has opened
UiIdle ==
    /\ view = "welcome"
    /\ isAnalyzing = FALSE
    /\ isLoading = FALSE
    /\ selPc = "idle"
    /\ shownAnalyzing = FALSE
    /\ clipsChanged = FALSE
    /\ handled = 0
    /\ lastClick = "none"

\* no ANALYZE_VIDEOS call has been made
AnalysisIdle ==
    /\ pc = "idle"
    /\ videoFiles = << >>
    /\ i = 0
    /\ analyzedClips = << >>
    /\ sent = << >>
    /\ tempDir = 0
    /\ frames = << >>
    /\ focusScores = << >>
    /\ disk = << >>
    /\ outcome = "pending"
    /\ result = << >>
    /\ status = << >>

\* let clips: VideoClip[] = []
AnalysisInit == AnalysisIdle /\ clips = << >>

\* clipHandlers.setClips
setClips(newClips) == clips' = newClips

\* sendProgress(event.sender, progress)
sendProgress(progress) == sent' = Append(sent, progress)

AnalyzingEvent(k, total, video) ==
    [stage |-> "analyzing", current |-> k + 1, total |-> total,
     currentFile |-> video.filename,
     message |-> <<"Analyzing ", video.filename, "...">>]

CompleteEvent(total) ==
    [stage |-> "complete", current |-> total, total |-> total,
     message |-> "Analysis complete!"]

\* { ...a, ...b }
Spread(a, b) ==
    [k \in DOMAIN a \cup DOMAIN b |-> IF k \in DOMAIN b THEN b[k] ELSE a[k]]

\* ANALYZE_VIDEOS is invoked with one of the lists
InvokeWith(lists) ==
    /\ pc = "idle"
    /\ \E vs \in lists :
        /\ videoFiles' = vs
        /\ status' = [k \in 1..Len(vs) |-> "pending"]
    /\ analyzedClips' = << >>
    /\ i' = 0
    /\ pc' = "loop"
    /\ UNCHANGED <<sent, tempDir, frames, focusScores, disk, clips, outcome, result>>
    /\ UNCHANGED <<exportVars, auxVars>>

\* Invoke refusing an empty list: the handler rejects
Invoke_rejectsEmpty ==
    \/ InvokeWith(VideoLists \ {<< >>})
    \/ /\ pc = "idle"
       /\ outcome' = "rejected"
       /\ pc' = "done"
       /\ UNCHANGED <<videoFiles, i, analyzedClips, sent, tempDir, frames,
                      focusScores, disk, clips, result, status>>
       /\ UNCHANGED <<exportVars, auxVars>>

\* the renderer invokes ANALYZE_VIDEOS
Invoke == InvokeWith(VideoLists)

\* StartVideo without the progress call before analyzeVideo
StartVideo_silent ==
    /\ pc = "loop"
    /\ i < Len(videoFiles)
    /\ pc' = "mkdtemp"
    /\ UNCHANGED <<videoFiles, i, analyzedClips, sent, tempDir, frames,
                   focusScores, disk, clips, outcome, result, status>>
    /\ UNCHANGED <<exportVars, auxVars>>

\* loop head with i < length: send the 'analyzing' event, enter analyzeVideo
StartVideo ==
    /\ pc = "loop"
    /\ i < Len(videoFiles)
    /\ sendProgress(AnalyzingEvent(i, Len(videoFiles), videoFiles[i + 1]))
    /\ pc' = "mkdtemp"
    /\ UNCHANGED <<videoFiles, i, analyzedClips, tempDir, frames, focusScores,
                   disk, clips, outcome, result, status>>
    /\ UNCHANGED <<exportVars, auxVars>>

\* HandleFailure with the error rethrown: the handler rejects
HandleFailure_rethrow ==
    /\ status' = [status EXCEPT ![i + 1] = "failed"]
    /\ outcome' = "rejected"
    /\ pc' = "done"
    /\ tempDir' = 0
    /\ frames' = << >>
    /\ focusScores' = << >>
    /\ UNCHANGED <<videoFiles, i, analyzedClips, sent, clips, result>>
    /\ UNCHANGED <<exportVars, auxVars>>

\* catch (error) { console.error(...) }: continue with the next video
HandleFailure ==
    /\ status' = [status EXCEPT ![i + 1] = "failed"]
    /\ i' = i + 1
    /\ pc' = "loop"
    /\ tempDir' = 0
    /\ frames' = << >>
    /\ focusScores' = << >>
    /\ UNCHANGED <<videoFiles, analyzedClips, sent, clips, outcome, result>>
    /\ UNCHANGED <<exportVars, auxVars>>

\* await mkdtemp(...)
MkdtempOk ==
    /\ pc = "mkdtemp"
    /\ disk' = Append(disk, [video |-> i, files |-> 0])
    /\ tempDir' = Len(disk) + 1
    /\ pc' = "extract"
    /\ UNCHANGED <<videoFiles, i, analyzedClips, sent, frames, focusScores,
                   clips, outcome, result, status>>
    /\ UNCHANGED <<exportVars, auxVars>>

MkdtempFail ==
    /\ pc = "mkdtemp"
    /\ HandleFailure
    /\ UNCHANGED disk

\* await extractFrames(video.path, tempDir, 1): ffmpeg wrote the frames and
\* the listing of the directory is returned
ExtractOk ==
    /\ pc = "extract"
    /\ \E fs \in FrameLists :
        /\ frames' = fs
        /\ disk' = [disk EXCEPT ![tempDir].files = Len(fs)]
    /\ pc' = "score"
    /\ UNCHANGED <<videoFiles, i, analyzedClips, sent, tempDir, focusScores,
                   clips, outcome, result, status>>
    /\ UNCHANGED <<exportVars, auxVars>>

\* ffmpeg's 'error' event: the promise rejects; frames written so far stay
ExtractFail ==
    /\ pc = "extract"
    /\ \E n \in 0..MaxFrames : disk' = [disk EXCEPT ![tempDir].files = n]
    /\ HandleFailure

\* ScoreFrames reporting progress for every frame it scores
ScoreFrames_progressPerFrame ==
    /\ pc = "score"
    /\ focusScores' = [k \in 1..Len(frames) |-> calculateFocusScore(frames[k])]
    /\ sent' = sent \o [k \in 1..Len(frames) |->
                          AnalyzingEvent(i, Len(videoFiles), videoFiles[i + 1])]
    /\ pc' = "thumbnail"
    /\ UNCHANGED <<videoFiles, i, analyzedClips, tempDir, frames, disk,
                   clips, outcome, result, status>>
    /\ UNCHANGED <<exportVars, auxVars>>

\* await Promise.all(frames.map(calculateFocusScore))
ScoreFrames ==
    /\ pc = "score"
    /\ focusScores' = [k \in 1..Len(frames) |-> calculateFocusScore(frames[k])]
    /\ pc' = "thumbnail"
    /\ UNCHANGED <<videoFiles, i, analyzedClips, sent, tempDir, frames, disk,
                   clips, outcome, result, status>>
    /\ UNCHANGED <<exportVars, auxVars>>

\* sharp fails to read one of the frames
ScoreFail ==
    /\ pc = "score"
    /\ Len(frames) > 0
    /\ HandleFailure
    /\ UNCHANGED disk

\* BuildClip with the unrounded mean as focusScore
BuildClip_unroundedFocus(video, scores, thumbnail) ==
    LET avgFocusScore == NumDivInt(SumNums(scores), Len(scores))
        overallScore == MathRound(avgFocusScore)
    IN  Spread(video,
               [focusScore |-> avgFocusScore, overallScore |-> overallScore,
                selected |-> FALSE, inPoint |-> 0, outPoint |-> video.duration,
                thumbnail |-> thumbnail])

\* BuildClip that takes the score of the thumbnail's frame for the clip
BuildClip_middleFrameScore(video, scores, thumbnail) ==
    LET avgFocusScore == scores[Len(scores) \div 2 + 1]
        overallScore == MathRound(avgFocusScore)
    IN  Spread(video,
               [focusScore |-> overallScore, overallScore |-> overallScore,
                selected |-> FALSE, inPoint |-> 0, outPoint |-> video.duration,
                thumbnail |-> thumbnail])

\* lines 62-80 of analyzeVideo, after the thumbnail is there
BuildClip(video, scores, thumbnail) ==
    LET avgFocusScore == NumDivInt(SumNums(scores), Len(scores))
        overallScore == MathRound(avgFocusScore)
    IN  Spread(video,
               [focusScore |-> overallScore, overallScore |-> overallScore,
                selected |-> FALSE, inPoint |-> 0, outPoint |-> video.duration,
                thumbnail |-> thumbnail])

\* ThumbnailOk that also stores the list built so far
ThumbnailOk_storesEachClip ==
    /\ pc = "thumbnail"
    /\ Len(frames) > 0
    /\ LET middleFrameIndex == Len(frames) \div 2
           thumbnail == <<"data:image/jpeg;base64,", middleFrameIndex>>
       IN analyzedClips' =
            Append(analyzedClips, BuildClip(videoFiles[i + 1], focusScores, thumbnail))
    /\ setClips(analyzedClips')
    /\ status' = [status EXCEPT ![i + 1] = "ok"]
    /\ i' = i + 1
    /\ pc' = "loop"
    /\ tempDir' = 0
    /\ frames' = << >>
    /\ focusScores' = << >>
    /\ UNCHANGED <<videoFiles, sent, disk, outcome, result>>
    /\ UNCHANGED <<exportVars, auxVars>>

\* generateThumbnail(frames[middleFrameIndex]) resolves, analyzeVideo returns,
\* the handler pushes the clip
ThumbnailOk ==
    /\ pc = "thumbnail"
    /\ Len(frames) > 0
    /\ LET middleFrameIndex == Len(frames) \div 2
           thumbnail == <<"data:image/jpeg;base64,", middleFrameIndex>>
       IN analyzedClips' =
            Append(analyzedClips, BuildClip(videoFiles[i + 1], focusScores, thumbnail))
    /\ status' = [status EXCEPT ![i + 1] = "ok"]
    /\ i' = i + 1
    /\ pc' = "loop"
    /\ tempDir' = 0
    /\ frames' = << >>
    /\ focusScores' = << >>
    /\ UNCHANGED <<videoFiles, sent, disk, clips, outcome, result>>
    /\ UNCHANGED <<exportVars, auxVars>>

\* generateThumbnail rejects: the frame cannot be read, resized or encoded.
\* Without a frame the argument is undefined: sharp(undefined) is an
\* instance that waits for image data to be streamed into it, toBuffer()
\* waits for the end of that stream, nothing is ever written to it, and the
\* awaited promise neither resolves nor rejects.
ThumbnailFail ==
    /\ pc = "thumbnail"
    /\ Len(frames) > 0
    /\ HandleFailure
    /\ UNCHANGED disk

\* Finish with the number of clips, not of videos, as current
Finish_countsClips ==
    /\ pc = "loop"
    /\ i >= Len(videoFiles)
    /\ sendProgress([CompleteEvent(Len(videoFiles)) EXCEPT !.current = Len(analyzedClips)])
    /\ setClips(analyzedClips)
    /\ result' = analyzedClips
    /\ outcome' = "returned"
    /\ pc' = "done"
    /\ UNCHANGED <<videoFiles, i, analyzedClips, tempDir, frames, focusScores,
                   disk, status>>
    /\ UNCHANGED <<exportVars, auxVars>>

\* loop exit: 'complete' event, setClips, return
Finish ==
    /\ pc = "loop"
    /\ i >= Len(videoFiles)
    /\ sendProgress(CompleteEvent(Len(videoFiles)))
    /\ setClips(analyzedClips)
    /\ result' = analyzedClips
    /\ outcome' = "returned"
    /\ pc' = "done"
    /\ UNCHANGED <<videoFiles, i, analyzedClips, tempDir, frames, focusScores,
                   disk, status>>
    /\ UNCHANGED <<exportVars, auxVars>>

\* ------------------------------------------------------------- export
\* encodeURI leaves the characters of paths used here alone, except the
\* space and the percent sign; a lone surrogate makes it throw URIError.
LoneSurrogate == "<D800>"
EncodeChar(c) ==
    CASE c = " " -> <<"%", "2", "0">>
      [] c = "%" -> <<"%", "2", "5">>
      [] OTHER   -> <<c>>

RECURSIVE encodeURI(_)
encodeURI(s) ==
    IF s = << >> THEN << >> ELSE EncodeChar(Head(s)) \o encodeURI(Tail(s))

encodeURIThrows(s) == \E k \in DOMAIN s : s[k] = LoneSurrogate

\* filter that keeps every clip
FilterSelected_keepsAll(cs) == cs

\* clips.filter((c) => c.selected)
FilterSelected(cs) == SelectSeq(cs, LAMBDA c : c.selected)

\* Unique without the Set: every element kept
Unique_keepAll(xs) == xs

\* Array.from(new Set(xs)): the distinct elements in order of first occurrence
RECURSIVE UniqueFrom(_, _)
UniqueFrom(xs, seen) ==
    IF xs = << >> THEN seen
    ELSE IF \E k \in DOMAIN seen : seen[k] = Head(xs)
         THEN UniqueFrom(Tail(xs), seen)
         ELSE UniqueFrom(Tail(xs), Append(seen, Head(xs)))
Unique(xs) == UniqueFrom(xs, << >>)

\* xs.indexOf(x) + 1: position of the first occurrence, 0 if there is none
IndexOfPlus1(xs, x) ==
    IF \E k \in DOMAIN xs : xs[k] = x
    THEN CHOOSE k \in DOMAIN xs : xs[k] = x /\ \A j \in 1..(k - 1) : xs[j] # x
    ELSE 0

\* selectedClips.find((c) => c.path === path)
FindByPath(cs, path) ==
    cs[CHOOSE k \in DOMAIN cs : cs[k].path = path /\ \A j \in 1..(k - 1) : cs[j].path # path]

\* one <asset .../> element of the resources section
AssetXml(index, path, clip) ==
    [id |-> <<"r", index>>, src |-> <<"file://">> \o encodeURI(path),
     start |-> 0, duration |-> clip.duration, hasVideo |-> 1, format |-> "r0",
     hasAudio |-> 1]

\* one <asset-clip ...> element of the spine
AssetClipXml(clip, resourceId, currentOffset) ==
    [ref |-> <<"r", resourceId>>, offset |-> currentOffset,
     name |-> clip.filename, start |-> clip.inPoint,
     duration |-> clip.outPoint - clip.inPoint,
     note |-> <<"Focus Score: ", clip.focusScore>>]

\* LayOut advancing by outPoint instead of outPoint - inPoint
RECURSIVE LayOut_byOutPoint(_, _, _, _)
LayOut_byOutPoint(cs, uniqueFiles, currentOffset, acc) ==
    IF cs = << >> THEN [xml |-> acc, currentOffset |-> currentOffset]
    ELSE LET clip == Head(cs)
             resourceId == IndexOfPlus1(uniqueFiles, clip.path)
         IN  LayOut_byOutPoint(Tail(cs), uniqueFiles, currentOffset + clip.outPoint,
                    Append(acc, AssetClipXml(clip, resourceId, currentOffset)))

\* selectedClips.map(...) with the running currentOffset; returns the
\* elements and the final currentOffset
RECURSIVE LayOut(_, _, _, _)
LayOut(cs, uniqueFiles, currentOffset, acc) ==
    IF cs = << >> THEN [xml |-> acc, currentOffset |-> currentOffset]
    ELSE LET clip == Head(cs)
             resourceId == IndexOfPlus1(uniqueFiles, clip.path)
             duration == clip.outPoint - clip.inPoint
         IN  LayOut(Tail(cs), uniqueFiles, currentOffset + duration,
                    Append(acc, AssetClipXml(clip, resourceId, currentOffset)))

\* generateFCPXML(clips, projectName): the document, or the exception
generateFCPXML(cs, projectName) ==
    LET selectedClips == FilterSelected(cs)
        uniqueFiles == Unique([k \in DOMAIN selectedClips |-> selectedClips[k].path])
        resources == [k \in DOMAIN uniqueFiles |->
                        AssetXml(k, uniqueFiles[k], FindByPath(selectedClips, uniqueFiles[k]))]
        timeline == LayOut(selectedClips, uniqueFiles, 0, << >>)
    IN  IF \E k \in DOMAIN uniqueFiles : encodeURIThrows(uniqueFiles[k])
        THEN [threw |-> TRUE, message |-> "URI malformed"]
        ELSE [threw |-> FALSE,
              xml |-> [version |-> "1.10",
                       format |-> [id |-> "r0", name |-> "FFVideoFormat1080p30",
                                   frameDuration |-> <<100, 3000>>,
                                   width |-> 1920, height |-> 1080],
                       assets |-> resources,
                       event |-> "Video Culler Import",
                       project |-> projectName,
                       sequence |-> [format |-> "r0", tcStart |-> 0,
                                     tcFormat |-> "NDF",
                                     duration |-> timeline.currentOffset],
                       spine |-> timeline.xml]]

\* options.projectName || fallback
ProjectNameOr(options, fallback) ==
    IF "projectName" \in DOMAIN options /\ options.projectName # ""
    THEN options.projectName ELSE fallback

\* ------------------------------------------------------- export inputs
\* A clip as analyze returns it, then trimmed / selected by the caller.
SampleClip(video, inP, outP, sel) ==
    [BuildClip(video, <<calculateFocusScore(SharpFrame)>>,
               <<"data:image/jpeg;base64,", 0>>)
       EXCEPT !.inPoint = inP, !.outPoint = outP, !.selected = sel]

\* ffprobe reports no duration for "/ ": getVideoMetadata makes it 0
VideoSpace == VideoFile(<<"/", " ">>, " ", 0, 25000)
VideoPct   == VideoFile(<<"/", "%", "2", "0">>, "%20", 2, 25000)
VideoBad   == VideoFile(<<"/", LoneSurrogate>>, LoneSurrogate, 2, 25000)

SampleClips ==
    { SampleClip(VideoA, 0, 5, TRUE),
      SampleClip(VideoB, 0, 3, TRUE),
      SampleClip(VideoC, 0, 7, TRUE),
      SampleClip(VideoA, 1, 4, TRUE),
      SampleClip(VideoB, 0, 3, FALSE),
      SampleClip(VideoSpace, 0, VideoSpace.duration, TRUE),
      SampleClip(VideoPct, 0, 2, TRUE),
      SampleClip(VideoBad, 0, 2, TRUE) }

ClipLists == UNION { [1..n -> SampleClips] : n \in 0..MaxExport }

OptionsSet == { [format |-> "fcpxml"],
                [projectName |-> "Reel", format |-> "fcpxml"] }

\* what the renderer's store can hold: the clips of a scan in scan order,
\* each selected or not
ScanOrder == <<VideoA, VideoB, VideoC>>
RendererStores ==
    UNION { { [k \in 1..n |-> SampleClip(ScanOrder[k], 0, ScanOrder[k].duration, sel[k])]
              : sel \in [1..n -> BOOLEAN] } : n \in 0..MaxStore }

SavePaths == {"/out/new.fcpxml", "/out/old.fcpxml"}
\* what is at a path the save dialog can return, before the export
Existing(path) ==
    IF path = "/out/old.fcpxml" THEN [kind |-> "previous"] ELSE [kind |-> "absent"]

ExportIdle ==
    /\ exPc = "idle"
    /\ exClips = << >>
    /\ exOptions = [format |-> "fcpxml"]
    /\ exCaller = "none"
    /\ filePath = ""
    /\ fileBefore = [kind |-> "absent"]
    /\ file = [kind |-> "absent"]
    /\ exResult = [pending |-> TRUE]
    /\ exOutcome = "pending"
    /\ writes = 0
    /\ uiPc = "idle"
    /\ isExporting = FALSE
    /\ alertMsg = ""

\* ---------------------------------------------- EXPORT_TIMELINE handler
\* window.api.exportTimeline(clips, options) called directly
ExportInvoke ==
    /\ exPc = "idle"
    /\ uiPc = "idle"
    /\ \E cs \in ClipLists, o \in OptionsSet :
        /\ exClips' = cs
        /\ exOptions' = o
    /\ exCaller' = "ipc"
    /\ exPc' = "dialog"
    /\ UNCHANGED <<filePath, fileBefore, file, exResult, exOutcome, writes,
                   rendererClips, uiPc, isExporting, alertMsg>>
    /\ UNCHANGED <<analysisVars, auxVars>>

\* result.canceled || !result.filePath
DialogCancel ==
    /\ exPc = "dialog"
    /\ exResult' = [success |-> FALSE, message |-> "Export cancelled"]
    /\ exOutcome' = "returned"
    /\ exPc' = "done"
    /\ UNCHANGED <<exClips, exOptions, exCaller, filePath, fileBefore, file,
                   writes, rendererClips, uiPc, isExporting, alertMsg>>
    /\ UNCHANGED <<analysisVars, auxVars>>

\* the user picks a file in the save dialog
DialogSave ==
    /\ exPc = "dialog"
    /\ \E p \in SavePaths :
        /\ filePath' = p
        /\ fileBefore' = Existing(p)
        /\ file' = Existing(p)
    /\ exPc' = "try"
    /\ UNCHANGED <<exClips, exOptions, exCaller, exResult, exOutcome, writes,
                   rendererClips, uiPc, isExporting, alertMsg>>
    /\ UNCHANGED <<analysisVars, auxVars>>

Generated == generateFCPXML(exClips, ProjectNameOr(exOptions, "Video Culler Timeline"))

\* catch (error): { success: false, message }
ExportFailed(message) ==
    /\ exResult' = [success |-> FALSE, message |-> message]
    /\ exOutcome' = "returned"
    /\ exPc' = "done"
    /\ UNCHANGED <<exClips, exOptions, exCaller, filePath, fileBefore,
                   rendererClips, uiPc, isExporting, alertMsg>>
    /\ UNCHANGED <<analysisVars, auxVars>>

\* generateFCPXML throws: caught before writeFile is called
GenerateThrows ==
    /\ exPc = "try"
    /\ Generated.threw
    /\ ExportFailed(Generated.message)
    /\ UNCHANGED <<file, writes>>

\* WriteOk refusing a clip list without exported clips
WriteOk_refusesEmpty ==
    /\ exPc = "try"
    /\ ~Generated.threw
    /\ IF FilterSelected(exClips) = << >>
       THEN /\ UNCHANGED <<file, writes>>
            /\ exResult' = [success |-> FALSE, message |-> "No clips to export"]
       ELSE /\ file' = [kind |-> "fcpxml", xml |-> Generated.xml]
            /\ writes' = writes + 1
            /\ exResult' = [success |-> TRUE, path |-> filePath]
    /\ exOutcome' = "returned"
    /\ exPc' = "done"
    /\ UNCHANGED <<exClips, exOptions, exCaller, filePath, fileBefore,
                   rendererClips, uiPc, isExporting, alertMsg>>
    /\ UNCHANGED <<analysisVars, auxVars>>

\* writeFile resolves: the file holds the whole document
WriteOk ==
    /\ exPc = "try"
    /\ ~Generated.threw
    /\ file' = [kind |-> "fcpxml", xml |-> Generated.xml]
    /\ writes' = writes + 1
    /\ exResult' = [success |-> TRUE, path |-> filePath]
    /\ exOutcome' = "returned"
    /\ exPc' = "done"
    /\ UNCHANGED <<exClips, exOptions, exCaller, filePath, fileBefore,
                   rendererClips, uiPc, isExporting, alertMsg>>
    /\ UNCHANGED <<analysisVars, auxVars>>

\* writeFile rejects when the file cannot be opened: nothing is touched
WriteFailOpen ==
    /\ exPc = "try"
    /\ ~Generated.threw
    /\ writes' = writes + 1
    /\ ExportFailed("EACCES: permission denied")
    /\ UNCHANGED file

\* writeFile rejects after the file was opened (and truncated): fs.writeFile
\* writes in place, so what was written so far stays
WriteFailPartial ==
    /\ exPc = "try"
    /\ ~Generated.threw
    /\ writes' = writes + 1
    /\ file' = [kind |-> "partial"]
    /\ ExportFailed("ENOSPC: no space left on device")

\* ------------------------------------------------ ExportBar.handleExport
\* selectedCount === 0: alert and return
HandleExportEmpty ==
    /\ uiPc = "idle"
    /\ exPc = "idle"
    /\ Len(FilterSelected(rendererClips)) = 0
    /\ alertMsg' = "Please select at least one clip to export."
    /\ uiPc' = "done"
    /\ UNCHANGED <<exPc, exClips, exOptions, exCaller, filePath, fileBefore,
                   file, exResult, exOutcome, writes, rendererClips, isExporting>>
    /\ UNCHANGED <<analysisVars, auxVars>>

\* setIsExporting(true); window.api.exportTimeline(selectedClips, {...})
HandleExportStart ==
    /\ uiPc = "idle"
    /\ exPc = "idle"
    /\ Len(FilterSelected(rendererClips)) # 0
    /\ isExporting' = TRUE
    /\ exClips' = FilterSelected(rendererClips)
    /\ exOptions' = [projectName |-> "Wedding Timeline", format |-> "fcpxml"]
    /\ exCaller' = "ui"
    /\ exPc' = "dialog"
    /\ uiPc' = "exporting"
    /\ UNCHANGED <<filePath, fileBefore, file, exResult, exOutcome, writes,
                   rendererClips, alertMsg>>
    /\ UNCHANGED <<analysisVars, auxVars>>

\* the awaited call resolved: alert the outcome; finally setIsExporting(false)
HandleExportResult ==
    /\ uiPc = "exporting"
    /\ exPc = "done"
    /\ alertMsg' = IF exResult.success
                   THEN <<"Timeline exported successfully to:", exResult.path>>
                   ELSE <<"Export failed: ", exResult.message>>
    /\ isExporting' = FALSE
    /\ uiPc' = "done"
    /\ UNCHANGED <<exPc, exClips, exOptions, exCaller, filePath, fileBefore,
                   file, exResult, exOutcome, writes, rendererClips>>
    /\ UNCHANGED <<analysisVars, auxVars>>

\* ------------------------------------------------------------ clip store
\* clips.findIndex((c) => c.id === id) + 1: 0 when no clip has the id
RECURSIVE FindIndexFrom(_, _, _)
FindIndexFrom(cs, id, k) ==
    IF k > Len(cs) THEN 0
    ELSE IF cs[k].id = id THEN k
    ELSE FindIndexFrom(cs, id, k + 1)
FindIndex(cs, id) == FindIndexFrom(cs, id, 1)

\* toggleSelection that marks the clip selected instead of flipping it
toggleSelection_selects(cs, clipId) ==
    LET k == FindIndex(cs, clipId)
    IN  IF k = 0 THEN cs ELSE [cs EXCEPT ![k].selected = TRUE]

\* toggleSelection that flips every stored clip once the id is found
toggleSelection_flipsAll(cs, clipId) ==
    LET k == FindIndex(cs, clipId)
    IN  IF k = 0 THEN cs ELSE [j \in DOMAIN cs |-> [cs[j] EXCEPT !.selected = ~@]]

\* the body of the TOGGLE_SELECTION handler: the first clip with the id, if
\* there is one, has its selected flag flipped
toggleSelection(cs, clipId) ==
    LET k == FindIndex(cs, clipId)
    IN  IF k = 0 THEN cs ELSE [cs EXCEPT ![k].selected = ~@]

\* the body of the UPDATE_CLIP handler: the fields of updatedClip are spread
\* over the clip with its id, whatever they are
updateClip(cs, updatedClip) ==
    LET k == IF "id" \in DOMAIN updatedClip THEN FindIndex(cs, updatedClip.id) ELSE 0
    IN  IF k = 0 THEN cs ELSE [cs EXCEPT ![k] = Spread(@, updatedClip)]

\* what a caller of window.api.updateClip can hand over
UpdateFields ==
    { [inPoint |-> 2, outPoint |-> 1],
      [selected |-> TRUE] }
Updates ==
    { Spread([id |-> v.id], f) : v \in ScannedVideos, f \in UpdateFields }
    \cup UpdateFields
    \cup { [id |-> VideoB.id, filename |-> "renamed", focusScore |-> FromInt(0)] }

\* what an earlier run over two of the scanned files left in the store
EarlierClips ==
    <<SampleClip(VideoB, 0, VideoB.duration, FALSE),
      SampleClip(VideoC, 0, VideoC.duration, FALSE)>>

\* ANALYZE_VIDEOS is invoked again, with the first files of the scan
InvokeAgain == InvokeWith({SubSeq(ScanOrder, 1, n) : n \in 0..MaxRerun})

\* TOGGLE_SELECTION invoked over IPC and handled
ToggleSelection ==
    /\ \E v \in ScannedVideos : clips' = toggleSelection(clips, v.id)
    /\ reply' = <<clips'>>
    /\ UNCHANGED <<pc, videoFiles, i, analyzedClips, sent, tempDir, frames,
                   focusScores, disk, outcome, result, status>>
    /\ UNCHANGED <<inFlight, scorerVars, converterVars, markerVars, samplerVars, uiVars>>
    /\ UNCHANGED exportVars

\* UPDATE_CLIP invoked over IPC and handled
UpdateClip ==
    /\ \E u \in Updates : clips' = updateClip(clips, u)
    /\ reply' = <<clips'>>
    /\ UNCHANGED <<pc, videoFiles, i, analyzedClips, sent, tempDir, frames,
                   focusScores, disk, outcome, result, status>>
    /\ UNCHANGED <<inFlight, scorerVars, converterVars, markerVars, samplerVars, uiVars>>
    /\ UNCHANGED exportVars

\* GET_CLIPS invoked over IPC and handled
GetClips ==
    /\ reply' = <<clips>>
    /\ UNCHANGED analysisVars
    /\ UNCHANGED <<inFlight, scorerVars, converterVars, markerVars, samplerVars, uiVars>>
    /\ UNCHANGED exportVars

\* ------------------------------------------------------- renderer store
\* useStore.toggleClipSelection(clipId): every clip with the id is toggled
\* in the renderer's store, then TOGGLE_SELECTION is sent to the main process
toggleClipSelection ==
    /\ Len(inFlight) < MaxInFlight
    /\ \E v \in ScannedVideos :
        /\ rendererClips' =
              [k \in DOMAIN rendererClips |->
                 IF rendererClips[k].id = v.id
                 THEN [rendererClips[k] EXCEPT !.selected = ~@]
                 ELSE rendererClips[k]]
        /\ inFlight' = Append(inFlight, v.id)
    /\ lastClick' = "card"
    /\ UNCHANGED <<exPc, exClips, exOptions, exCaller, filePath, fileBefore,
                   file, exResult, exOutcome, writes, uiPc, isExporting, alertMsg>>
    /\ UNCHANGED <<reply, scorerVars, converterVars, markerVars, samplerVars>>
    /\ UNCHANGED <<view, isAnalyzing, isLoading, selPc, shownAnalyzing,
                   clipsChanged, handled>>
    /\ UNCHANGED analysisVars

\* the main process handles the oldest TOGGLE_SELECTION message in flight
ToggleSelectionSent ==
    /\ inFlight # << >>
    /\ clips' = toggleSelection(clips, Head(inFlight))
    /\ inFlight' = Tail(inFlight)
    /\ reply' = <<clips'>>
    /\ UNCHANGED <<pc, videoFiles, i, analyzedClips, sent, tempDir, frames,
                   focusScores, disk, outcome, result, status>>
    /\ UNCHANGED <<scorerVars, converterVars, markerVars, samplerVars, uiVars>>
    /\ UNCHANGED exportVars

\* toggleClipSelection called for each of ids in turn: the renderer's store
\* after the calls
RECURSIVE ToggleEach(_, _)
ToggleEach(store, ids) ==
    IF ids = << >> THEN store
    ELSE ToggleEach([k \in DOMAIN store |->
                        IF store[k].id = Head(ids)
                        THEN [store[k] EXCEPT !.selected = ~@]
                        ELSE store[k]],
                    Tail(ids))

\* a threshold that leaves out the score 70 itself
HighScoring_above(clip) == ~NumLeq(clip.focusScore, FromInt(70))

\* clip.focusScore >= 70
HighScoring(clip) == NumLeq(FromInt(70), clip.focusScore)

\* the buttons of the ExportBar are there in the clips view with clips
ExportBarShown == view = "clips" /\ Len(rendererClips) > 0

\* selectAllHighScoring: 'Select High Scores' clicked
SelectAllHighScoring ==
    /\ ExportBarShown
    /\ LET wanted == SelectSeq(rendererClips, LAMBDA c : HighScoring(c) /\ ~c.selected)
           ids == [k \in DOMAIN wanted |-> wanted[k].id]
       IN  /\ Len(inFlight) + Len(ids) <= MaxInFlight
           /\ rendererClips' = ToggleEach(rendererClips, ids)
           /\ inFlight' = inFlight \o ids
    /\ lastClick' = "high"
    /\ UNCHANGED <<exPc, exClips, exOptions, exCaller, filePath, fileBefore,
                   file, exResult, exOutcome, writes, uiPc, isExporting, alertMsg>>
    /\ UNCHANGED <<reply, scorerVars, converterVars, markerVars, samplerVars>>
    /\ UNCHANGED <<view, isAnalyzing, isLoading, selPc, shownAnalyzing,
                   clipsChanged, handled>>
    /\ UNCHANGED analysisVars

\* clearSelection: 'Clear Selection' clicked
ClearSelection ==
    /\ ExportBarShown
    /\ LET wanted == SelectSeq(rendererClips, LAMBDA c : c.selected)
           ids == [k \in DOMAIN wanted |-> wanted[k].id]
       IN  /\ Len(inFlight) + Len(ids) <= MaxInFlight
           /\ rendererClips' = ToggleEach(rendererClips, ids)
           /\ inFlight' = inFlight \o ids
    /\ lastClick' = "clear"
    /\ UNCHANGED <<exPc, exClips, exOptions, exCaller, filePath, fileBefore,
                   file, exResult, exOutcome, writes, uiPc, isExporting, alertMsg>>
    /\ UNCHANGED <<reply, scorerVars, converterVars, markerVars, samplerVars>>
    /\ UNCHANGED <<view, isAnalyzing, isLoading, selPc, shownAnalyzing,
                   clipsChanged, handled>>
    /\ UNCHANGED analysisVars

\* ------------------------------------------------- welcome screen, App
\* A change of the store is rendered, and the effects of the render run,
\* before the renderer takes up the next click or message: the render is
\* queued as a microtask and its effects are flushed with it.
CommitDue == isAnalyzing # shownAnalyzing \/ clipsChanged

\* WelcomeScreen is mounted in the welcome view only; mounted anew it starts
\* with isLoading = false
LoadingIn(v, loading) == v = "welcome" /\ loading

\* App renders: the effect on [isAnalyzing], then the one on
\* [clips, isAnalyzing], run if their dependencies changed
Commit ==
    /\ CommitDue
    /\ view' = IF isAnalyzing /\ ~shownAnalyzing THEN "analyzing"
               ELSE IF Len(rendererClips) > 0 /\ ~isAnalyzing THEN "clips"
               ELSE view
    /\ isLoading' = LoadingIn(view', isLoading)
    /\ shownAnalyzing' = isAnalyzing
    /\ clipsChanged' = FALSE
    /\ UNCHANGED <<isAnalyzing, selPc, handled, lastClick, rendererClips>>
    /\ UNCHANGED <<exPc, exClips, exOptions, exCaller, filePath, fileBefore,
                   file, exResult, exOutcome, writes, uiPc, isExporting, alertMsg>>
    /\ UNCHANGED <<analysisVars, storeVars, scorerVars, converterVars,
                   markerVars, samplerVars>>

\* the listener of onAnalysisProgress takes the next progress event
OnProgress ==
    /\ ~CommitDue
    /\ handled < Len(sent)
    /\ handled' = handled + 1
    /\ view' = IF sent[handled + 1].stage = "complete" THEN "clips" ELSE view
    /\ isLoading' = LoadingIn(view', isLoading)
    /\ UNCHANGED <<isAnalyzing, selPc, shownAnalyzing, clipsChanged, lastClick,
                   rendererClips>>
    /\ UNCHANGED <<exPc, exClips, exOptions, exCaller, filePath, fileBefore,
                   file, exResult, exOutcome, writes, uiPc, isExporting, alertMsg>>
    /\ UNCHANGED <<analysisVars, storeVars, scorerVars, converterVars,
                   markerVars, samplerVars>>

\* handleSelectFolder: the button is clicked; await window.api.selectFolder()
HandleSelectFolder ==
    /\ ~CommitDue
    /\ view = "welcome"
    /\ ~isLoading
    /\ selPc \in {"idle", "caught", "analyzeCaught"}
    /\ isLoading' = TRUE
    /\ selPc' = "folder"
    /\ UNCHANGED <<view, isAnalyzing, shownAnalyzing, clipsChanged, handled,
                   lastClick, rendererClips>>
    /\ UNCHANGED <<exPc, exClips, exOptions, exCaller, filePath, fileBefore,
                   file, exResult, exOutcome, writes, uiPc, isExporting, alertMsg>>
    /\ UNCHANGED <<analysisVars, storeVars, scorerVars, converterVars,
                   markerVars, samplerVars>>

\* the dialog was cancelled: if (!folderPath) { setIsLoading(false); return }
FolderNone ==
    /\ ~CommitDue
    /\ selPc = "folder"
    /\ isLoading' = FALSE
    /\ selPc' = "idle"
    /\ UNCHANGED <<view, isAnalyzing, shownAnalyzing, clipsChanged, handled,
                   lastClick, rendererClips>>
    /\ UNCHANGED <<exPc, exClips, exOptions, exCaller, filePath, fileBefore,
                   file, exResult, exOutcome, writes, uiPc, isExporting, alertMsg>>
    /\ UNCHANGED <<analysisVars, storeVars, scorerVars, converterVars,
                   markerVars, samplerVars>>

\* a folder was chosen: await window.api.scanVideos(folderPath)
FolderChosen ==
    /\ ~CommitDue
    /\ selPc = "folder"
    /\ selPc' = "scan"
    /\ UNCHANGED <<view, isAnalyzing, isLoading, shownAnalyzing, clipsChanged,
                   handled, lastClick, rendererClips>>
    /\ UNCHANGED <<exPc, exClips, exOptions, exCaller, filePath, fileBefore,
                   file, exResult, exOutcome, writes, uiPc, isExporting, alertMsg>>
    /\ UNCHANGED <<analysisVars, storeVars, scorerVars, converterVars,
                   markerVars, samplerVars>>

\* the scan found nothing: alert, setIsLoading(false), return
ScanEmpty ==
    /\ ~CommitDue
    /\ selPc = "scan"
    /\ isLoading' = FALSE
    /\ selPc' = "idle"
    /\ UNCHANGED <<view, isAnalyzing, shownAnalyzing, clipsChanged, handled,
                   lastClick, rendererClips>>
    /\ UNCHANGED <<exPc, exClips, exOptions, exCaller, filePath, fileBefore,
                   file, exResult, exOutcome, writes, uiPc, isExporting, alertMsg>>
    /\ UNCHANGED <<analysisVars, storeVars, scorerVars, converterVars,
                   markerVars, samplerVars>>

\* the scan found files: setIsAnalyzing(true); window.api.analyzeVideos(...)
ScanFound ==
    /\ ~CommitDue
    /\ selPc = "scan"
    /\ pc = "idle"
    /\ isAnalyzing' = TRUE
    /\ selPc' = "analyze"
    /\ UNCHANGED <<view, isLoading, shownAnalyzing, clipsChanged, handled,
                   lastClick, rendererClips>>
    /\ UNCHANGED <<exPc, exClips, exOptions, exCaller, filePath, fileBefore,
                   file, exResult, exOutcome, writes, uiPc, isExporting, alertMsg>>
    /\ UNCHANGED <<analysisVars, storeVars, scorerVars, converterVars,
                   markerVars, samplerVars>>

\* what a scan hands to analyzeVideos: the first files, at least one
MaxScanned == 2
UiLists == {SubSeq(ScanOrder, 1, n) : n \in 1..MaxScanned}

\* the call reaches the main process: the ANALYZE_VIDEOS handler starts
UiInvoke ==
    /\ selPc = "analyze"
    /\ InvokeWith(UiLists)

\* selectFolder or scanVideos rejects: catch { alert; setIsLoading(false);
\* setIsAnalyzing(false) }
Rejected ==
    /\ ~CommitDue
    /\ selPc \in {"folder", "scan"}
    /\ isLoading' = FALSE
    /\ isAnalyzing' = FALSE
    /\ selPc' = "caught"
    /\ UNCHANGED <<view, shownAnalyzing, clipsChanged, handled, lastClick,
                   rendererClips>>
    /\ UNCHANGED <<exPc, exClips, exOptions, exCaller, filePath, fileBefore,
                   file, exResult, exOutcome, writes, uiPc, isExporting, alertMsg>>
    /\ UNCHANGED <<analysisVars, storeVars, scorerVars, converterVars,
                   markerVars, samplerVars>>

\* analyzeVideos rejects, the call not having reached a handler: the same
\* catch block
AnalyzeRejected ==
    /\ ~CommitDue
    /\ selPc = "analyze"
    /\ pc = "idle"
    /\ isLoading' = FALSE
    /\ isAnalyzing' = FALSE
    /\ selPc' = "analyzeCaught"
    /\ UNCHANGED <<view, shownAnalyzing, clipsChanged, handled, lastClick,
                   rendererClips>>
    /\ UNCHANGED <<exPc, exClips, exOptions, exCaller, filePath, fileBefore,
                   file, exResult, exOutcome, writes, uiPc, isExporting, alertMsg>>
    /\ UNCHANGED <<analysisVars, storeVars, scorerVars, converterVars,
                   markerVars, samplerVars>>

\* analyzeVideos resolves: setClips(analyzedClips); setIsAnalyzing(false)
AnalyzeResolved ==
    /\ ~CommitDue
    /\ selPc = "analyze"
    /\ outcome = "returned"
    /\ rendererClips' = result
    /\ clipsChanged' = TRUE
    /\ isAnalyzing' = FALSE
    /\ selPc' = "done"
    /\ UNCHANGED <<view, isLoading, shownAnalyzing, handled, lastClick>>
    /\ UNCHANGED <<exPc, exClips, exOptions, exCaller, filePath, fileBefore,
                   file, exResult, exOutcome, writes, uiPc, isExporting, alertMsg>>
    /\ UNCHANGED <<analysisVars, storeVars, scorerVars, converterVars,
                   markerVars, samplerVars>>

\* ------------------------------------------------------------- scorer
\* calculateFocusScore(framePath) called on a decoded frame: the promise
\* resolves with the score
Score ==
    /\ image # << >>
    /\ score = << >>
    /\ score' = <<[resolved |-> calculateFocusScore(image[1])]>>
    /\ UNCHANGED <<image, storeVars, converterVars, markerVars, samplerVars, uiVars>>
    /\ UNCHANGED <<analysisVars, exportVars>>

\* ------------------------------------------------------ time conversions
\* The frame rates of the compatibility table, in 1/1000 fps, and those
\* whose timecode is drop-frame.
SupportedFrameRates == {23976, 24000, 25000, 29970, 30000, 50000, 59940, 60000}
DropFrameRates == {23976, 29970, 59940}

\* round(r): the integer frame rate used as fps and as timebase
RoundRate(r) == (r + 500) \div 1000

\* Tick counts exceed 32 bits: a natural number is kept as its digits in
\* base 10000, most significant first, without leading zeros (0 is << >>).
Base == 10000
RECURSIVE Norm(_)
Norm(b) == IF b # << >> /\ Head(b) = 0 THEN Norm(Tail(b)) ELSE b

\* b // d for 0 < d
RECURSIVE BigDivFrom(_, _, _, _, _)
BigDivFrom(b, d, k, rem, acc) ==
    IF k > Len(b) THEN Norm(acc)
    ELSE LET cur == rem * Base + b[k]
         IN  BigDivFrom(b, d, k + 1, cur % d, Append(acc, cur \div d))
BigDiv(b, d) == BigDivFrom(b, d, 1, 0, << >>)

\* b * n for 0 <= n
RECURSIVE BigMulFrom(_, _, _, _, _)
BigMulFrom(b, n, k, carry, acc) ==
    IF k = 0 THEN Norm(<<carry \div Base, carry % Base>> \o acc)
    ELSE LET cur == b[k] * n + carry
         IN  BigMulFrom(b, n, k - 1, cur \div Base, <<cur % Base>> \o acc)
BigMul(b, n) == BigMulFrom(b, n, Len(b), 0, << >>)

\* 254016000000
TicksPerSecond == <<2540, 1600, 0>>

\* framesToTicks rounding once per call at the exact frame rate
framesToTicks_exactRate(f, r) ==
    BigDiv(BigMul(BigMul(TicksPerSecond, f), 1000), r)

\* ticks_per_frame = 254016000000 // timebase; ticks = frames * ticks_per_frame
framesToTicks(f, r) ==
    LET timebase == RoundRate(r)
        ticks_per_frame == BigDiv(TicksPerSecond, timebase)
    IN  BigMul(ticks_per_frame, f)

\* f"{n:02d}"
DigitChars == <<"0", "1", "2", "3", "4", "5", "6", "7", "8", "9">>
RECURSIVE Decimal(_)
Decimal(n) ==
    IF n < 10 THEN <<DigitChars[n + 1]>>
    ELSE Append(Decimal(n \div 10), DigitChars[(n % 10) + 1])
TwoDigits(n) == IF n < 10 THEN <<"0">> \o Decimal(n) ELSE Decimal(n)

\* Frames -> Timecode: the fields by integer division, the separator by the
\* timecode class of the rate
framesToSmpte(f, r) ==
    LET fps == RoundRate(r)
        hours == f \div (3600 * fps)
        minutes == (f \div (60 * fps)) % 60
        seconds == (f \div fps) % 60
        frame == f % fps
        sep == IF r \in DropFrameRates THEN ";" ELSE ":"
    IN  TwoDigits(hours) \o <<":">> \o TwoDigits(minutes) \o <<":">>
          \o TwoDigits(seconds) \o <<sep>> \o TwoDigits(frame)

\* framesToSmpte(frameCount, rate) is called
FramesToSmpte ==
    /\ rate # << >>
    /\ smpte = << >>
    /\ smpte' = <<framesToSmpte(frameCount, rate[1])>>
    /\ UNCHANGED <<rate, frameCount, ticks, storeVars, scorerVars, markerVars, samplerVars, uiVars>>
    /\ UNCHANGED <<analysisVars, exportVars>>

\* framesToTicks is called for frameCount and for twice frameCount
FramesToTicks ==
    /\ rate # << >>
    /\ ticks = << >>
    /\ ticks' = <<[single |-> framesToTicks(frameCount, rate[1]),
                   double |-> framesToTicks(2 * frameCount, rate[1])]>>
    /\ UNCHANGED <<rate, frameCount, smpte, storeVars, scorerVars, markerVars, samplerVars, uiVars>>
    /\ UNCHANGED <<analysisVars, exportVars>>

\* ------------------------------------------------------ marker attachment
\* Times of the exported timeline are in half seconds.
TimelineClip(inP, outP) == [inPoint |-> inP, outPoint |-> outP]
TimelineSpans ==
    { TimelineClip(0, 10), TimelineClip(0, 6), TimelineClip(0, 14),
      TimelineClip(2, 8) }
Timelines == UNION { [1..n -> TimelineSpans] : n \in 0..MaxTimelineClips }

Marker(t, n) == [time |-> t, name |-> n]
MarkerTimes == {0, 3, 10, 13, 16, 30, 40}
MarkerNames == <<"m1", "m2", "m3", "m4">>
MarkerLists ==
    UNION { { [k \in 1..n |-> Marker(ts[k], MarkerNames[k])] : ts \in [1..n -> MarkerTimes] }
            : n \in 0..MaxMarkers }

\* the clip's offset on the timeline: the clips before it, laid end to end
RECURSIVE OffsetOf(_, _)
OffsetOf(tl, k) ==
    IF k = 1 THEN 0
    ELSE OffsetOf(tl, k - 1) + (tl[k - 1].outPoint - tl[k - 1].inPoint)

RECURSIVE SelectMarkers(_, _, _)
SelectMarkers(ms, lo, hi) ==
    IF ms = << >> THEN << >>
    ELSE LET m == Head(ms)
             rest == SelectMarkers(Tail(ms), lo, hi)
         IN  IF lo <= m.time /\ m.time <= hi
             THEN <<[name |-> m.name, local |-> m.time - lo]>> \o rest
             ELSE rest

\* attachMarkers that compares the marker's time with the clip's own in and
\* out points
attachMarkers_sourceTime(tl, ms) ==
    [k \in 1..Len(tl) |-> SelectMarkers(ms, tl[k].inPoint, tl[k].outPoint)]

\* per clip, the markers whose time lies in [offset, offset + (outPoint -
\* inPoint)], at their time local to the clip; the other markers are left out
attachMarkers(tl, ms) ==
    [k \in 1..Len(tl) |->
        SelectMarkers(ms, OffsetOf(tl, k),
                      OffsetOf(tl, k) + (tl[k].outPoint - tl[k].inPoint))]

\* an exporter lays out the clips and attaches the markers
AttachMarkers ==
    /\ attached = << >>
    /\ attached' = <<attachMarkers(tlClips, markers)>>
    /\ UNCHANGED <<tlClips, markers, storeVars, scorerVars, converterVars, samplerVars, uiVars>>
    /\ UNCHANGED <<analysisVars, exportVars>>

\* ------------------------------------------------------- frame sampler
\* File names are sequences of UTF-16 code units, which is what sort()
\* without a comparator compares.
FramePrefix == <<102, 114, 97, 109, 101, 45>>                   \* 'frame-'
PngSuffix == <<46, 112, 110, 103>>                              \* '.png'
NotesTxt == <<110, 111, 116, 101, 115, 46, 116, 120, 116>>      \* 'notes.txt'
FramesTxt == <<102, 114, 97, 109, 101, 115, 46, 116, 120, 116>> \* 'frames.txt'
OutputDir == <<47, 116>>                                        \* '/t'

MaxListed == 30              \* frame counts up to here are all tried
LongVideoFrames == 10000     \* frames of a video of 2 h 46 min 40 s

\* the decimal digits of n, as code units
RECURSIVE DigitUnits(_)
DigitUnits(n) ==
    IF n < 10 THEN <<48 + n>> ELSE Append(DigitUnits(n \div 10), 48 + (n % 10))

\* %04d: zero-padded to at least four digits
PadWidth == 4
RECURSIVE ZeroPad(_)
ZeroPad(d) == IF Len(d) < PadWidth THEN ZeroPad(<<48>> \o d) ELSE d

\* the name ffmpeg gives the n-th frame it writes (numbering starts at 1)
FrameName(n) == FramePrefix \o ZeroPad(DigitUnits(n)) \o PngSuffix

\* String.prototype.startsWith
startsWith(f, prefix) ==
    Len(f) >= Len(prefix) /\ SubSeq(f, 1, Len(prefix)) = prefix

\* a < b for strings: at the first difference the smaller code unit, or a is
\* a proper prefix of b
RECURSIVE LexLessFrom(_, _, _)
LexLessFrom(a, b, k) ==
    IF k > Len(a) THEN k <= Len(b)
    ELSE IF k > Len(b) THEN FALSE
    ELSE IF a[k] # b[k] THEN a[k] < b[k]
    ELSE LexLessFrom(a, b, k + 1)
LexLess(a, b) == LexLessFrom(a, b, 1)

\* path.join(outputDir, f)
join(dir, f) == dir \o <<47>> \o f

\* the 'end' callback of extractFrames: filter, sort, join
framesOf(files, outputDir) ==
    LET own == SelectSeq(files, LAMBDA f : startsWith(f, FramePrefix))
        sorted == SortSeq(own, LexLess)
    IN  [k \in DOMAIN sorted |-> join(outputDir, sorted[k])]

Reverse(q) == [k \in DOMAIN q |-> q[Len(q) + 1 - k]]

\* what readdir can list after ffmpeg wrote n frames into a directory that
\* held the files of strays: the order of a listing is not specified
Listings(n, strays) ==
    LET made == [k \in 1..n |-> FrameName(k)]
    IN  {made \o strays}
        \cup (IF n <= MaxListed THEN {strays \o Reverse(made)} ELSE {})

StrayFiles == {<< >>, <<NotesTxt>>, <<FramesTxt>>, <<NotesTxt, FramesTxt>>}

\* ffmpeg's 'end' event: the directory is listed and the promise resolves
ExtractFramesEnd ==
    /\ framePaths = << >>
    /\ framePaths' = <<[resolved |-> framesOf(dirFiles, OutputDir)]>>
    /\ UNCHANGED <<written, dirFiles, storeVars, scorerVars, converterVars, markerVars, uiVars>>
    /\ UNCHANGED <<analysisVars, exportVars>>

\* ffmpeg's 'error' event: the promise rejects
ExtractFramesError ==
    /\ framePaths = << >>
    /\ framePaths' = <<[rejected |-> TRUE]>>
    /\ UNCHANGED <<written, dirFiles, storeVars, scorerVars, converterVars, markerVars, uiVars>>
    /\ UNCHANGED <<analysisVars, exportVars>>

AnalysisNext ==
    \/ Invoke
    \/ StartVideo
    \/ MkdtempOk
    \/ MkdtempFail
    \/ ExtractOk
    \/ ExtractFail
    \/ ScoreFrames
    \/ ScoreFail
    \/ ThumbnailOk
    \/ ThumbnailFail
    \/ Finish

ExportNext ==
    \/ ExportInvoke
    \/ DialogCancel
    \/ DialogSave
    \/ GenerateThrows
    \/ WriteOk
    \/ WriteFailOpen
    \/ WriteFailPartial
    \/ HandleExportEmpty
    \/ HandleExportStart
    \/ HandleExportResult

\* the clip-store handlers, called over IPC at any time, and one analysis run
StoreNext ==
    \/ InvokeAgain
    \/ StartVideo
    \/ MkdtempOk
    \/ MkdtempFail
    \/ ExtractOk
    \/ ExtractFail
    \/ ScoreFrames
    \/ ScoreFail
    \/ ThumbnailOk
    \/ ThumbnailFail
    \/ Finish
    \/ ToggleSelection
    \/ UpdateClip
    \/ GetClips

vars == <<analysisVars, exportVars, auxVars>>

\* one analysis run, nothing exported
AuxIdle ==
    StoreIdle /\ ScorerIdle /\ ConverterIdle /\ MarkerIdle /\ SamplerIdle /\ UiIdle
Init == AnalysisInit /\ ExportIdle /\ rendererClips = << >> /\ AuxIdle
Next == AnalysisNext
Spec == Init /\ [][Next]_vars

\* one export, of the renderer's selection or of clips handed over directly
ExportInit ==
    AnalysisInit /\ ExportIdle /\ rendererClips \in RendererStores /\ AuxIdle
SpecExport == ExportInit /\ [][ExportNext]_vars

\* the scorer applied to one frame
ScoreInit ==
    /\ AnalysisInit /\ ExportIdle /\ rendererClips = << >>
    /\ StoreIdle /\ ConverterIdle /\ MarkerIdle /\ SamplerIdle /\ UiIdle
    /\ image \in {<<f>> : f \in ScorerFrames}
    /\ score = << >>
ScoreNext == Score
SpecScore == ScoreInit /\ [][ScoreNext]_vars

\* the time conversions applied to one frame count at one supported rate
ConvertInit ==
    /\ AnalysisInit /\ ExportIdle /\ rendererClips = << >>
    /\ StoreIdle /\ ScorerIdle /\ MarkerIdle /\ SamplerIdle /\ UiIdle
    /\ rate \in {<<r>> : r \in SupportedFrameRates}
    /\ frameCount \in 0..MaxFrameCount
    /\ smpte = << >>
    /\ ticks = << >>
ConvertNext ==
    \/ FramesToSmpte
    \/ FramesToTicks
SpecConvert == ConvertInit /\ [][ConvertNext]_vars

\* one timeline with markers handed to an exporter
MarkerInit ==
    /\ AnalysisInit /\ ExportIdle /\ rendererClips = << >>
    /\ StoreIdle /\ ScorerIdle /\ ConverterIdle /\ SamplerIdle /\ UiIdle
    /\ tlClips \in Timelines
    /\ markers \in MarkerLists
    /\ attached = << >>
MarkerNext == AttachMarkers
SpecMarkers == MarkerInit /\ [][MarkerNext]_vars

\* extractFrames on a directory ffmpeg has written its frames into
SamplerInit ==
    /\ AnalysisInit /\ ExportIdle /\ rendererClips = << >>
    /\ StoreIdle /\ ScorerIdle /\ ConverterIdle /\ MarkerIdle /\ UiIdle
    /\ written \in (0..MaxListed) \cup {LongVideoFrames}
    /\ \E strays \in StrayFiles : dirFiles \in Listings(written, strays)
    /\ framePaths = << >>
SamplerNext ==
    \/ ExtractFramesEnd
    \/ ExtractFramesError
SpecSampler == SamplerInit /\ [][SamplerNext]_vars

\* the window from its opening: folders are selected, one analysis runs
UiNext ==
    \/ HandleSelectFolder
    \/ FolderNone
    \/ FolderChosen
    \/ ScanEmpty
    \/ ScanFound
    \/ Rejected
    \/ UiInvoke
    \/ StartVideo
    \/ MkdtempOk
    \/ MkdtempFail
    \/ ExtractOk
    \/ ExtractFail
    \/ ScoreFrames
    \/ ScoreFail
    \/ ThumbnailOk
    \/ ThumbnailFail
    \/ Finish
    \/ OnProgress
    \/ AnalyzeResolved
    \/ AnalyzeRejected
    \/ Commit
SpecUi == Init /\ [][UiNext]_vars

\* what an analysis of the first files of a scan leaves in both stores: no
\* clip selected, scores on either side of the 'Select High Scores' threshold
StoreScores == {FromInt(69), FromInt(70)}
AnalyzedStores ==
    UNION { { [k \in 1..n |->
                 BuildClip(ScanOrder[k], <<sc[k]>>, <<"data:image/jpeg;base64,", 0>>)]
              : sc \in [1..n -> StoreScores] } : n \in 0..MaxStore }

\* the renderer's store and the main-process store after handleSelectFolder
\* put the result of an analysis into both: the clips a scan found, none
\* selected; then clips are toggled in the renderer
SyncInit ==
    /\ AnalysisIdle
    /\ ExportIdle
    /\ StoreIdle /\ ScorerIdle /\ ConverterIdle /\ MarkerIdle /\ SamplerIdle
    /\ clips \in AnalyzedStores
    /\ rendererClips = clips
    /\ view = "clips"
    /\ isAnalyzing = FALSE
    /\ isLoading = FALSE
    /\ selPc = "done"
    /\ shownAnalyzing = FALSE
    /\ clipsChanged = FALSE
    /\ handled = 0
    /\ lastClick = "none"
SyncNext ==
    \/ toggleClipSelection
    \/ ToggleSelectionSent
    \/ SelectAllHighScoring
    \/ ClearSelection
SpecSync == SyncInit /\ [][SyncNext]_vars

\* the clip store holding what an earlier run left there, its handlers and
\* one more analysis run
StoreInit ==
    /\ AnalysisIdle
    /\ clips \in {<< >>, EarlierClips}
    /\ ExportIdle
    /\ rendererClips = << >>
    /\ AuxIdle
SpecStore == StoreInit /\ [][StoreNext]_vars

\* ------------------------------------------------------------ properties
Processing == pc \in {"mkdtemp", "extract", "score", "thumbnail"}
Failed == {k \in DOMAIN status : status[k] = "failed"}
AnalyzingSent == {e \in DOMAIN sent : sent[e].stage = "analyzing"}
CompleteSent == {e \in DOMAIN sent : sent[e].stage = "complete"}

\* the input videos whose analysis succeeded among the first k, in input order
RECURSIVE OkVideos(_)
OkVideos(k) ==
    IF k = 0 THEN << >>
    ELSE IF status[k] = "ok" THEN Append(OkVideos(k - 1), videoFiles[k])
         ELSE OkVideos(k - 1)

SameVideo(clip, video) ==
    /\ clip.id = video.id
    /\ clip.path = video.path
    /\ clip.filename = video.filename

\* C1: a failure while analyzing one video never aborts the batch and never
\* reaches the caller as a rejection: the handler never rejects, the clips
\* collected so far are exactly the videos that succeeded so far, in input
\* order, and when the handler returns every video has been attempted and
\* the returned list is exactly the succeeded videos in input order.
C1_FailuresAreSkipped ==
    /\ outcome # "rejected"
    /\ pc # "idle" =>
        /\ Len(analyzedClips) = Len(OkVideos(i))
        /\ \A k \in DOMAIN analyzedClips : SameVideo(analyzedClips[k], OkVideos(i)[k])
    /\ pc = "done" =>
        /\ outcome = "returned"
        /\ i = Len(videoFiles)
        /\ \A k \in DOMAIN status : status[k] # "pending"
        /\ Len(result) = Len(OkVideos(Len(videoFiles)))
        /\ \A k \in DOMAIN result : SameVideo(result[k], OkVideos(Len(videoFiles))[k])

C1_Witness ==
    /\ pc = "done"
    /\ status = <<"failed", "ok", "ok">>
    /\ Len(result) = 2
    /\ result[1].id = videoFiles[2].id
    /\ result[2].id = videoFiles[3].id

\* C2: while video i is being processed (temporary directory, sampling,
\* scoring, thumbnail) its 'analyzing' event, with index, total and filename,
\* is already the last event sent; every temporary directory on disk belongs
\* to a video whose event was sent; events are sent in strictly increasing
\* video order.
C2_ProgressBeforeProcessing ==
    /\ Processing =>
        /\ Len(sent) = i + 1
        /\ sent[i + 1].stage = "analyzing"
        /\ sent[i + 1].current = i + 1
        /\ sent[i + 1].total = Len(videoFiles)
        /\ sent[i + 1].currentFile = videoFiles[i + 1].filename
    /\ \A d \in DOMAIN disk :
        \E e \in AnalyzingSent : sent[e].current = disk[d].video + 1
    /\ \A k \in DOMAIN status :
        status[k] # "pending" => \E e \in AnalyzingSent : sent[e].current = k
    /\ \A a, b \in AnalyzingSent : a < b => sent[a].current < sent[b].current

C2_Witness ==
    /\ pc = "extract"
    /\ i = 1
    /\ Len(disk) = 1
    /\ Len(sent) = 2

\* C3: a run sends at most one 'complete' event; it carries current = total =
\* number of input videos, is sent only when every video has been attempted,
\* nothing is sent after it, and a finished run has sent exactly one -
\* whether or not videos failed.
C3_OneCompleteEventLast ==
    /\ Cardinality(CompleteSent) <= 1
    /\ \A e \in CompleteSent :
        /\ e = Len(sent)
        /\ sent[e].current = Len(videoFiles)
        /\ sent[e].total = Len(videoFiles)
        /\ pc = "done"
        /\ \A k \in DOMAIN status : status[k] # "pending"
    /\ pc = "done" => Cardinality(CompleteSent) = 1

C3_Witness ==
    /\ pc = "done"
    /\ status = <<"ok", "failed">>
    /\ sent[3].stage = "complete"

\* C4: a batch of N videos of which k fail returns N - k clips and has sent
\* N 'analyzing' events and one 'complete' event, all with total = N; no
\* event is sent per frame (never more than one event per attempted video).
C4_CountsPerBatch ==
    /\ \A e \in DOMAIN sent : sent[e].total = Len(videoFiles)
    /\ Cardinality(AnalyzingSent) <= Len(videoFiles)
    /\ pc \in {"loop", "done"} => Cardinality(AnalyzingSent) = i
    /\ pc = "done" =>
        /\ Len(result) = Len(videoFiles) - Cardinality(Failed)
        /\ Cardinality(AnalyzingSent) = Len(videoFiles)
        /\ Cardinality(CompleteSent) = 1
        /\ Len(sent) = Len(videoFiles) + 1
    /\ (pc = "done" /\ status = <<"ok", "failed", "ok">>) =>
        /\ Len(result) = 2
        /\ Cardinality(AnalyzingSent) = 3
        /\ sent[4].stage = "complete"
        /\ sent[4].total = 3

C4_Witness ==
    /\ pc = "done"
    /\ status = <<"ok", "failed", "ok">>
    /\ Len(result) = 2
    /\ Len(sent) = 4

\* C5: a temporary directory exists only while the video it was acquired for
\* is being analyzed: once that analysis has ended (success or failure) the
\* directory is gone, so none remains after the batch.
C5_TempDirRemoved ==
    \A d \in DOMAIN disk : Processing /\ disk[d].video = i

\* ---- export
Exported == FilterSelected(exClips)
Written == file.kind = "fcpxml"

RECURSIVE SumDurations(_, _)
SumDurations(cs, n) ==
    IF n = 0 THEN 0
    ELSE SumDurations(cs, n - 1) + (cs[n].outPoint - cs[n].inPoint)

\* C6: in a written timeline the k-th exported clip's offset is the sum of
\* (outPoint - inPoint) of the exported clips before it, each clip starts
\* where its predecessor ends, and the sequence duration is the sum over all
\* exported clips; clips of 5s, 3s, 7s from inPoint 0 get offsets 0, 5, 8 and
\* the sequence lasts 15s.
C6_SequentialLayout ==
    Written =>
        LET spine == file.xml.spine
        IN  /\ Len(spine) = Len(Exported)
            /\ \A k \in DOMAIN spine :
                /\ spine[k].offset = SumDurations(Exported, k - 1)
                /\ spine[k].duration = Exported[k].outPoint - Exported[k].inPoint
                /\ spine[k].start = Exported[k].inPoint
                /\ k > 1 => spine[k].offset = spine[k - 1].offset + spine[k - 1].duration
            /\ file.xml.sequence.duration = SumDurations(Exported, Len(Exported))
            /\ ([k \in DOMAIN Exported |-> <<Exported[k].inPoint, Exported[k].outPoint>>]
                    = <<<<0, 5>>, <<0, 3>>, <<0, 7>>>>)
                => /\ [k \in DOMAIN spine |-> spine[k].offset] = <<0, 5, 8>>
                   /\ file.xml.sequence.duration = 15

C6_Witness ==
    /\ Written
    /\ [k \in DOMAIN Exported |-> <<Exported[k].inPoint, Exported[k].outPoint>>]
          = <<<<0, 5>>, <<0, 3>>, <<0, 7>>>>
    /\ [k \in DOMAIN file.xml.spine |-> file.xml.spine[k].offset] = <<0, 5, 8>>

\* C7: in a written timeline the resources hold exactly one asset per
\* distinct path of the exported clips (no source twice, none unused), and
\* every clip element references, by index, the asset of its own path.
C7_OneAssetPerPath ==
    Written =>
        LET assets == file.xml.assets
            spine == file.xml.spine
            paths == {Exported[k].path : k \in DOMAIN Exported}
        IN  /\ Len(assets) = Cardinality(paths)
            /\ \A a, b \in DOMAIN assets : a # b => assets[a].src # assets[b].src
            /\ \A a \in DOMAIN assets :
                /\ assets[a].id = <<"r", a>>
                /\ \E k \in DOMAIN spine : spine[k].ref = assets[a].id
            /\ \A k \in DOMAIN spine :
                \E a \in DOMAIN assets :
                    /\ spine[k].ref = <<"r", a>>
                    /\ assets[a].src = <<"file://">> \o encodeURI(Exported[k].path)

C7_Witness ==
    /\ Written
    /\ Len(file.xml.spine) = 3
    /\ Len(file.xml.assets) = 2
    /\ file.xml.spine[1].ref = file.xml.spine[3].ref

\* C8: a finished export has returned (never rejected) and either reports
\* success with the whole document written, or reports failure with no file
\* written or partially written; a failure of generation happens before any
\* write is attempted.
C8_AllOrNothing ==
    exPc = "done" =>
        /\ exOutcome = "returned"
        /\ \/ /\ exResult.success
              /\ Written
              /\ ~Generated.threw
              /\ file.xml = Generated.xml
           \/ /\ ~exResult.success
              /\ file = fileBefore
        /\ (filePath # "" /\ Generated.threw) => writes = 0

UnsupportedRate ==
    \E k \in DOMAIN Exported : Exported[k].fps \notin SupportedFrameRates

\* C9: an export at an unsupported frame rate fails with
\* UnsupportedFrameRateError before any write is attempted, and no file is
\* ever produced for an unsupported frame rate.
C9_UnsupportedRateRejected ==
    /\ (Written /\ exCaller # "none") => ~UnsupportedRate
    /\ (exPc = "done" /\ filePath # "" /\ UnsupportedRate) =>
        /\ ~exResult.success
        /\ exResult.message = "UnsupportedFrameRateError"
        /\ writes = 0

EmptyDocument(xml) ==
    /\ xml.version = "1.10"
    /\ xml.format.id = "r0"
    /\ xml.event = "Video Culler Import"
    /\ xml.project = ProjectNameOr(exOptions, "Video Culler Timeline")
    /\ xml.sequence.format = "r0"
    /\ xml.assets = << >>
    /\ xml.spine = << >>
    /\ xml.sequence.duration = 0

Running == pc \notin {"idle", "done"}

InOutWithinDuration(clip) ==
    /\ 0 <= clip.inPoint
    /\ clip.inPoint <= clip.outPoint
    /\ clip.outPoint <= clip.duration

\* C11: every clip held in the main-process clip store satisfies
\* 0 <= inPoint <= outPoint <= duration, after any sequence of analysis runs
\* (setClips), TOGGLE_SELECTION and UPDATE_CLIP calls.
C11_StoredClipsWithinDuration ==
    \A k \in DOMAIN clips : InOutWithinDuration(clips[k])

Scored == score # << >>
HasInterior(img) == img.width >= 3 /\ img.height >= 3
InScoreRange(x) == ~IsNaN(x) /\ NumLeq(FromInt(0), x) /\ NumLeq(x, FromInt(100))

\* the clip analyzeVideo builds for a video whose frames scored as in scores
ClipOfScores(scores) ==
    BuildClip(VideoA, scores, <<"data:image/jpeg;base64,", Len(scores) \div 2>>)

\* C12: the focus score of every frame of at least 3x3 pixels lies in
\* [0, 100]; so do the focusScore and the overallScore of the clip built
\* from such scores (the frame alone, and the frame with a frame scoring
\* 0 and with a frame scoring 100).
C12_ScoreWithinRange ==
    (Scored /\ HasInterior(image[1])) =>
        /\ "resolved" \in DOMAIN score[1]
        /\ InScoreRange(score[1].resolved)
        /\ \A others \in {<< >>, <<calculateFocusScore(FlatFrame)>>,
                          <<calculateFocusScore(SharpFrame)>>} :
             LET clip == ClipOfScores(<<score[1].resolved>> \o others)
             IN  /\ InScoreRange(clip.focusScore)
                 /\ InScoreRange(clip.overallScore)

\* a frame of 4x4 whose score lies strictly between 0 and 100 has been scored
C12_Witness ==
    /\ Scored
    /\ image[1].width = 4 /\ image[1].height = 4
    /\ ~NumLeq(score[1].resolved, FromInt(0))
    /\ ~NumLeq(FromInt(100), score[1].resolved)

\* C13: scoring a frame whose width or height is less than 3 fails with an
\* InsufficientResolutionError; no score, and in particular no NaN, is
\* returned for it.
C13_SmallFrameRejected ==
    (Scored /\ ~HasInterior(image[1])) =>
        /\ "rejected" \in DOMAIN score[1]
        /\ score[1].rejected = "InsufficientResolutionError"

\* the clip is its video file with the fields analyzeVideo adds
ClipOfVideo(clip, video) ==
    /\ DOMAIN video \subseteq DOMAIN clip
    /\ \A f \in DOMAIN video : clip[f] = video[f]
    /\ clip.focusScore = clip.overallScore
    /\ clip.selected = FALSE
    /\ clip.inPoint = 0
    /\ clip.outPoint = video.duration

\* C14: every clip analyze collects, and so every clip it returns, carries
\* all fields of its video file unchanged and has focusScore = overallScore,
\* selected = false, inPoint = 0 and outPoint = the file's duration.
C14_ClipCopiesVideoFile ==
    /\ pc # "idle" =>
        \A k \in DOMAIN analyzedClips :
            k \in DOMAIN OkVideos(i) /\ ClipOfVideo(analyzedClips[k], OkVideos(i)[k])
    /\ outcome = "returned" => result = analyzedClips

\* the handler has returned two clips, one of them with a score above 0
C14_Witness ==
    /\ outcome = "returned"
    /\ Len(result) = 2
    /\ \E k \in DOMAIN result : result[k].focusScore # FromInt(0)

\* C15: analyze called with an empty video list is not an error: no
\* 'analyzing' event is ever sent, the handler does not reject, and when it
\* is done it has sent exactly one event, 'complete' with current = total = 0,
\* has returned an empty clip list and has stored an empty clip list.
C15_EmptyListCompletes ==
    (pc # "idle" /\ videoFiles = << >>) =>
        /\ AnalyzingSent = {}
        /\ outcome # "rejected"
        /\ pc = "done" =>
            /\ outcome = "returned"
            /\ Len(sent) = 1
            /\ sent[1].stage = "complete"
            /\ sent[1].current = 0
            /\ sent[1].total = 0
            /\ result = << >>
            /\ clips = << >>

\* the handler was invoked with the empty list and is done
C15_Witness ==
    /\ pc = "done"
    /\ videoFiles = << >>
    /\ outcome = "returned"

Timecode_00_00_59_29 == <<"0", "0", ":", "0", "0", ":", "5", "9", ";", "2", "9">>
Timecode_00_01_00_02 == <<"0", "0", ":", "0", "1", ":", "0", "0", ";", "0", "2">>
\* the text is hh:mm:ss at a minute that is not a multiple of 10, second 00
AtDroppingMinute(tc) == tc[5] # "0" /\ tc[7] = "0" /\ tc[8] = "0"

\* C16: at 29.97 fps the separator before the frame field is ';', the
\* timecode after 00:00:59;29 is 00:01:00;02, frame numbers 00 and 01 never
\* appear in the first second of a minute that is not a multiple of 10, and
\* none is skipped at minute 0.
C16_DropFrameSkipsTwo ==
    (smpte # << >> /\ rate[1] = 29970) =>
        /\ smpte[1][9] = ";"
        /\ smpte[1] = Timecode_00_00_59_29 =>
             framesToSmpte(frameCount + 1, rate[1]) = Timecode_00_01_00_02
        /\ AtDroppingMinute(smpte[1]) =>
             <<smpte[1][10], smpte[1][11]>> \notin {<<"0", "0">>, <<"0", "1">>}
        /\ frameCount < 30 => <<smpte[1][10], smpte[1][11]>> = TwoDigits(frameCount)

\* C17: framesToTicks is linear in the frame count at every supported rate:
\* the ticks of 2f frames are twice the ticks of f frames; and round(r)
\* frames, one second at the timebase, are exactly 254016000000 ticks.
C17_TicksLinear ==
    ticks # << >> =>
        /\ ticks[1].double = BigMul(ticks[1].single, 2)
        /\ frameCount = RoundRate(rate[1]) => ticks[1].single = TicksPerSecond

\* the ticks of an odd, non-zero frame count at 29.97 fps have been computed
C17_Witness ==
    /\ ticks # << >>
    /\ rate[1] = 29970
    /\ frameCount = 1799
    /\ ticks[1].single # << >>

\* the span of the k-th clip on the timeline: the durations before it, then
\* its own
SpanStart(k) ==
    SumInts([j \in 1..(k - 1) |-> tlClips[j].outPoint - tlClips[j].inPoint])
SpanEnd(k) == SpanStart(k) + (tlClips[k].outPoint - tlClips[k].inPoint)
InSpan(m, k) == SpanStart(k) <= m.time /\ m.time <= SpanEnd(k)

Ids(cs) == [k \in DOMAIN cs |-> cs[k].id]

\* C19: the clip collection is written once per analysis run, with the
\* whole batch result, when the run ends: a step of the run before its end
\* leaves the collection alone; while the run is in progress every step,
\* the store's handlers included, keeps the clips the collection held
\* before (their flags and trims may change, never the membership), and a
\* handler replies with that collection; the step that ends the run stores
\* the complete list, which is the list returned.
C19_StoredOncePerRun ==
    [][ /\ (pc' # pc /\ pc' # "done") => clips' = clips
        /\ (Running /\ Running') => Ids(clips') = Ids(clips)
        /\ (Running /\ reply' # reply) => reply' = <<clips'>>
        /\ (pc # "done" /\ pc' = "done") =>
            /\ clips' = analyzedClips
            /\ result' = clips'
            /\ outcome' = "returned"
            /\ Len(clips') = Len(OkVideos(Len(videoFiles)))
      ]_vars

\* a run has built one clip and not yet ended; the store still holds the two
\* clips of before, one toggled, and a handler has just replied with them
C19_Witness ==
    /\ Running
    /\ Len(analyzedClips) = 1
    /\ Len(clips) = 2
    /\ clips[1].selected /\ ~clips[2].selected
    /\ Ids(clips) # Ids(analyzedClips)
    /\ reply = <<clips>>

\* the selected flags of the clips with the id, in store order
SelectedOf(cs, id) == [k \in {j \in DOMAIN cs : cs[j].id = id} |-> cs[k].selected]

\* C20: once every TOGGLE_SELECTION message the renderer's store sent has
\* been handled, the renderer's store and the main-process store hold the
\* same clips and every clip id has the same selected flag in both.
C20_StoresAgreeOnSelection ==
    inFlight = << >> =>
        /\ Ids(rendererClips) = Ids(clips)
        /\ \A v \in ScannedVideos :
            SelectedOf(rendererClips, v.id) = SelectedOf(clips, v.id)

\* after toggles of both clips, and a second toggle of one, all handled: the
\* first clip is selected and the second is not
C20_Witness ==
    /\ inFlight = << >>
    /\ reply = <<clips>>
    /\ Len(rendererClips) = 2
    /\ rendererClips[1].selected
    /\ ~rendererClips[2].selected
    /\ clips[1].selected

\* the clip still carries what analyze gave it: the identity, file name and
\* duration of its video file and one score as focusScore and overallScore
AsCreated(clip) ==
    /\ \E v \in ScannedVideos :
        /\ clip.id = v.id
        /\ clip.path = v.path
        /\ clip.filename = v.filename
        /\ clip.duration = v.duration
    /\ clip.focusScore = clip.overallScore

\* C21: no clip-store operation changes the id, path, filename, duration,
\* focusScore or overallScore of a stored clip: every stored clip carries
\* these fields as analyze created them.
C21_CreatedFieldsNeverChange ==
    \A k \in DOMAIN clips : AsCreated(clips[k])

\* analyzeVideo is at generateThumbnail for a video that yielded no frame
NoFrames == pc = "thumbnail" /\ frames = << >>

IsRounded(r, x) ==
    /\ ~IsNaN(x)
    /\ 2 * r * x.den - x.den <= 2 * x.num
    /\ 2 * x.num < 2 * r * x.den + x.den

\* the mean of the scores of the frames fs, taken in the order p
MeanInOrder(fs, p) ==
    NumDivInt(SumNums([k \in DOMAIN fs |-> calculateFocusScore(fs[p[k]])]), Len(fs))

ClipPushed == Len(analyzedClips') = Len(analyzedClips) + 1

\* C23: when a clip is added for a video, every frame sampled from the video
\* has its score, and the clip's focusScore and overallScore are both the
\* integer nearest to the arithmetic mean of those scores, in whichever
\* order the scores are taken.
C23_ScoreIsRoundedMean ==
    [][ClipPushed =>
        LET clip == analyzedClips'[Len(analyzedClips')]
        IN  /\ frames # << >>
            /\ DOMAIN focusScores = DOMAIN frames
            /\ \A k \in DOMAIN frames : focusScores[k] = calculateFocusScore(frames[k])
            /\ clip.focusScore = clip.overallScore
            /\ clip.focusScore.den = 1
            /\ \A p \in Permutations(DOMAIN frames) :
                 IsRounded(clip.focusScore.num, MeanInOrder(frames, p))]_vars

\* a clip of a flat and a soft frame: the mean lies halfway between two integers
C23_Witness ==
    \E k \in DOMAIN analyzedClips :
        analyzedClips[k].focusScore =
            MathRound(NumDivInt(NumAdd(calculateFocusScore(FlatFrame),
                                       calculateFocusScore(SoftFrame)), 2))

\* ---------------------------------------------------------------- C24
Sampled == framePaths # << >> /\ "resolved" \in DOMAIN framePaths[1]
OwnFiles == {dirFiles[k] : k \in {j \in DOMAIN dirFiles : startsWith(dirFiles[j], FramePrefix)}}

\* C24: what extractFrames resolves with are the files of the output
\* directory whose names start with 'frame-', each once, as paths below the
\* directory, in lexicographic order of their names, and the k-th of them is
\* the k-th frame ffmpeg wrote.
C24_SortedIsTemporal ==
    Sampled =>
        LET paths == framePaths[1].resolved
        IN  /\ {paths[k] : k \in DOMAIN paths} = {join(OutputDir, f) : f \in OwnFiles}
            /\ Len(paths) = Cardinality(OwnFiles)
            /\ \A k \in 1..(Len(paths) - 1) : LexLess(paths[k], paths[k + 1])
            /\ \A k \in DOMAIN paths : paths[k] = join(OutputDir, FrameName(k))

\* ---------------------------------------------------------------- C25
\* C25: every clip element of a written timeline has a duration above zero,
\* and the clip it was rendered from has inPoint < outPoint.
C25_PositiveDurations ==
    Written =>
        \A k \in DOMAIN file.xml.spine :
            /\ file.xml.spine[k].duration > 0
            /\ Exported[k].inPoint < Exported[k].outPoint

\* ---------------------------------------------------------------- C26
SelectedIn(cs) == {k \in DOMAIN cs : cs[k].selected}
\* the index in cs of the n-th selected clip
NthSelected(cs, n) ==
    CHOOSE j \in SelectedIn(cs) : Cardinality({m \in SelectedIn(cs) : m <= j}) = n
RECURSIVE SelectedDuration(_, _)
SelectedDuration(cs, n) ==
    IF n = 0 THEN 0
    ELSE SelectedDuration(cs, n - 1)
         + (IF cs[n].selected THEN cs[n].outPoint - cs[n].inPoint ELSE 0)

\* C26: a written timeline has one clip element per selected clip of the
\* handler's input, in the order of the input, every asset belongs to a
\* selected clip, and the sequence lasts as long as the selected clips
\* together; no step of an export changes the clips it was given, the
\* renderer's clips or the clip store.
C26_SelectedClipsOnly ==
    [][/\ clips' = clips
       /\ rendererClips' = rendererClips
       /\ exPc # "idle" => exClips' = exClips
       /\ Written' =>
            LET spine == file'.xml.spine
                assets == file'.xml.assets
            IN  /\ Len(spine) = Cardinality(SelectedIn(exClips'))
                /\ \A n \in DOMAIN spine :
                     LET clip == exClips'[NthSelected(exClips', n)]
                     IN  /\ spine[n].name = clip.filename
                         /\ spine[n].start = clip.inPoint
                         /\ spine[n].duration = clip.outPoint - clip.inPoint
                /\ \A a \in DOMAIN assets :
                     \E j \in SelectedIn(exClips') :
                        assets[a].src = <<"file://">> \o encodeURI(exClips'[j].path)
                /\ file'.xml.sequence.duration = SelectedDuration(exClips', Len(exClips'))
      ]_vars

\* a timeline written for two selected clips with an unselected one between
C26_Witness ==
    /\ Written
    /\ Len(exClips) = 3
    /\ SelectedIn(exClips) = {1, 3}
    /\ Len(file.xml.spine) = 2
    /\ file.xml.spine[1].name # file.xml.spine[2].name

\* ---------------------------------------------------------------- C27
ToggleHandled == Len(inFlight') < Len(inFlight)

\* C27: the main process handling TOGGLE_SELECTION for an id flips the
\* selected flag of the stored clip with that id, of which there is at most
\* one, and leaves every other clip, every other field and the order of the
\* list as they were; without such a clip the store stays as it is; a second
\* TOGGLE_SELECTION for the same id gives back the store of before.
C27_ToggleFlipsOneFlag ==
    [][ToggleHandled =>
        LET id == Head(inFlight)
            hits == {k \in DOMAIN clips : clips[k].id = id}
        IN  /\ Cardinality(hits) <= 1
            /\ DOMAIN clips' = DOMAIN clips
            /\ \A k \in DOMAIN clips :
                 clips'[k] = IF k \in hits
                             THEN [clips[k] EXCEPT !.selected = ~clips[k].selected]
                             ELSE clips[k]
            /\ hits = {} => clips' = clips
            /\ toggleSelection(clips', id) = clips
            /\ reply' = <<clips'>>]_vars

\* the first of two stored clips has been toggled, and a second message for
\* the same id is on its way
C27_Witness ==
    /\ reply # << >>
    /\ Len(clips) = 2
    /\ clips[1].selected /\ ~clips[2].selected
    /\ inFlight = <<clips[1].id>>

\* ---------------------------------------------------------------- C28
AtLeast70(clip) == clip.focusScore.num >= 70 * clip.focusScore.den
AllHighSelected(cs) == \A k \in DOMAIN cs : AtLeast70(cs[k]) => cs[k].selected
NoneSelected(cs) == \A k \in DOMAIN cs : ~cs[k].selected

\* C28: a click on 'Select High Scores' leaves every clip of the renderer's
\* store that scores 70 or more selected, every clip selected before still
\* selected and every clip below 70 with the flag it had; a click on 'Clear
\* Selection' leaves no clip of the renderer's store selected; as long as
\* that click is the last one, the same holds of the main-process store once
\* every TOGGLE_SELECTION message has been handled.
C28_SelectHighAndClear ==
    [][/\ lastClick' = "high" =>
            /\ AllHighSelected(rendererClips')
            /\ inFlight' = << >> => AllHighSelected(clips')
       /\ (lastClick' = "high" /\ rendererClips' # rendererClips) =>
            /\ DOMAIN rendererClips' = DOMAIN rendererClips
            /\ \A k \in DOMAIN rendererClips :
                 /\ rendererClips[k].selected => rendererClips'[k].selected
                 /\ ~AtLeast70(rendererClips[k]) =>
                        rendererClips'[k] = rendererClips[k]
                 /\ rendererClips'[k] =
                        [rendererClips[k] EXCEPT !.selected = rendererClips'[k].selected]
       /\ lastClick' = "clear" =>
            /\ NoneSelected(rendererClips')
            /\ inFlight' = << >> => NoneSelected(clips')
      ]_vars

\* 'Select High Scores' was clicked with the lower-scoring first clip
\* selected by hand and the second clip scoring 70: both are selected in
\* both stores
C28_Witness ==
    /\ lastClick = "high"
    /\ inFlight = << >>
    /\ Len(clips) = 2
    /\ ~AtLeast70(clips[1]) /\ clips[1].selected
    /\ clips[2].focusScore = FromInt(70) /\ clips[2].selected
    /\ rendererClips = clips

\* 'Clear Selection' was clicked and both stores have lost their selection
C28_WitnessCleared ==
    /\ lastClick = "clear"
    /\ inFlight = << >>
    /\ reply # << >>
    /\ Len(clips) = 2
    /\ NoneSelected(clips) /\ NoneSelected(rendererClips)

\* ---------------------------------------------------------------- C29
\* nothing the renderer has received is waiting to be handled or rendered
Quiet == ~CommitDue /\ handled = Len(sent)

\* C29: with the analyzeVideos call settled and everything received handled,
\* after a resolved call the view is 'clips' and isAnalyzing is false, also
\* with an empty clip list; after a rejected call isAnalyzing and isLoading
\* are false, the view is not 'analyzing' and the folder button can be
\* clicked.
C29_NeverLeftAnalyzing ==
    /\ (selPc = "done" /\ Quiet) => (view = "clips" /\ ~isAnalyzing)
    /\ (selPc = "analyzeCaught" /\ Quiet) =>
            /\ ~isAnalyzing
            /\ ~isLoading
            /\ view # "analyzing"
            /\ ENABLED HandleSelectFolder

\* ---------------------------------------------------------------- C30
IsFlat(img) == \A j, k \in DOMAIN img.data : img.data[j] = img.data[k]

\* C30: a frame of at least 3 x 3 whose pixels all have one value has equal
\* Laplacian responses, hence variance 0, and its score is 0.
C30_FlatFrameScoresZero ==
    (Scored /\ IsFlat(image[1]) /\ HasInterior(image[1])) =>
        LET l == Laplacian(image[1])
            s == score[1].resolved
        IN  /\ \A j, k \in DOMAIN l : l[j] = l[k]
            /\ ~IsNaN(s)
            /\ s.num = 0

\* the largest frame, flat at the brightest level, has been scored
C30_Witness ==
    /\ Scored
    /\ IsFlat(image[1])
    /\ image[1].width = MaxSide /\ image[1].height = MaxSide
    /\ image[1].data[1] = 255
    /\ score[1].resolved.num = 0
====
